---- MODULE Spec2Model ----
(***************************************************************************)
(* gdeltPyR: the date resolver of gdelt/dateFuncs.py (dateRanger,          *)
(* gdeltRangeString) and the fetch-and-assemble pipeline of gdelt/base.py  *)
(* (gdelt.Search).                                                         *)
(*                                                                         *)
(* Text is modelled as a sequence of tokens.  A user date string such as   *)
(* "2016-10-19" is the token sequence <<2016, 10, 19>>; the empty string   *)
(* is <<>>.  The output of strftime('%Y%m%d%H%M%S') is modelled character  *)
(* by character (14 digits), because the code slices it by character.      *)
(* A datetime is the record of its fields, as in Python.                   *)
(***************************************************************************)
EXTENDS Integers, Sequences, FiniteSets, TLC

VARIABLES
    rpc,            \* resolver harness: position ("start", "ranged", "resolved", "again")
    originalArray,  \* the date spec handed to dateRanger
    dates,          \* what dateRanger returned (or that it raised)
    coverage,       \* the coverage flag of the call
    version,        \* the version of the call
    now,            \* the wall clock read by the first gdeltRangeString call
    converted,      \* what the first gdeltRangeString call returned
    now2,           \* the wall clock read by the second call
    converted2,     \* what the second call returned
    spc,            \* Search: "idle" between calls, "download" at line 280, "pool" while fetches run
    self_version,   \* self.version
    arg_table,      \* the `table` argument of the running (or last) call
    self_table,     \* self.table
    self_coverage,  \* self.coverage
    datesString,    \* self.datesString
    download_list,  \* self.download_list (kept by the object from call to call)
    columns,        \* the local `columns` of the running call
    pending,        \* pool: the dispatched fetches that have not completed
    downloaded_dfs, \* the RowBatches the running (or last) call collected, in completion order
    outcome,        \* how the last call ended: the table returned or the error raised
    fetchStarted,   \* number of file fetches the running (or last) call started
    livePools,      \* worker pools created by Search and not yet closed and joined
    calls           \* number of Search calls made on the object

rvars == <<rpc, originalArray, dates, coverage, version, now, converted, now2, converted2>>

svars == <<spc, self_version, arg_table, self_table, self_coverage, datesString, download_list,
           columns, pending, downloaded_dfs, outcome, fetchStarted, livePools, calls>>

vars == <<rvars, svars>>

----------------------------------------------------------------------------
(* Bounds of the model *)

\* longest two-element range [a, b] explored, in days between a and b
MaxSpan == 2

\* most files one Search call resolves to
MaxFiles == 3

\* most rows one fetched file holds
MaxRows == 2

\* most Search calls made on one gdelt object
MaxCalls == 2

----------------------------------------------------------------------------
(* Calendar arithmetic of datetime / numpy datetime64[D] *)

IsLeap(y) == (y % 4 = 0) /\ ((y % 100 # 0) \/ (y % 400 = 0))

DaysInMonth(y, m) ==
    IF m = 2 THEN (IF IsLeap(y) THEN 29 ELSE 28)
    ELSE IF m \in {4, 6, 9, 11} THEN 30 ELSE 31

DaysBeforeYear(y) ==
    (y - 1) * 365 + ((y - 1) \div 4) - ((y - 1) \div 100) + ((y - 1) \div 400)

RECURSIVE DaysBeforeMonth(_, _)
DaysBeforeMonth(y, m) ==
    IF m = 1 THEN 0 ELSE DaysBeforeMonth(y, m - 1) + DaysInMonth(y, m - 1)

\* date.toordinal(): the day number numpy's datetime64[D] arithmetic runs on
toordinal(y, m, d) == DaysBeforeYear(y) + DaysBeforeMonth(y, m) + d

Years == 2005..2017

\* date.fromordinal(): the calendar day of a day number, as <<y, m, d>>
fromordinal(n) ==
    LET y == CHOOSE yy \in Years : DaysBeforeYear(yy) < n /\ n <= DaysBeforeYear(yy + 1)
        m == CHOOSE mm \in 1..12 :
                 /\ DaysBeforeMonth(y, mm) < n - DaysBeforeYear(y)
                 /\ n - DaysBeforeYear(y) <= DaysBeforeMonth(y, mm) + DaysInMonth(y, mm)
    IN  <<y, m, n - DaysBeforeYear(y) - DaysBeforeMonth(y, m)>>

\* datetime.datetime(y, m, d, H, M, S)
DateTime(y, m, d, H, M, S) ==
    [year |-> y, month |-> m, day |-> d, hour |-> H, minute |-> M, second |-> S]

\* datetime.datetime.combine(x, datetime.time.min): midnight of x's day
combineMin(x) == DateTime(x.year, x.month, x.day, 0, 0, 0)

\* x.date(), as the triple compared by ==
dateOf(x) == <<x.year, x.month, x.day>>

\* total order of datetimes, as the key <<day number, second of day>>
SecondOfDay(x) == x.hour * 3600 + x.minute * 60 + x.second
dtGeq(a, b) ==
    LET oa == toordinal(a.year, a.month, a.day)
        ob == toordinal(b.year, b.month, b.day)
    IN  oa > ob \/ (oa = ob /\ SecondOfDay(a) >= SecondOfDay(b))
dtLess(a, b) == ~dtGeq(a, b)

----------------------------------------------------------------------------
(* Formatting and parsing *)

Digits2(n) == <<n \div 10, n % 10>>
Digits4(n) == <<n \div 1000, (n \div 100) % 10, (n \div 10) % 10, n % 10>>
Num2(s, i) == s[i] * 10 + s[i + 1]
Num4(s, i) == s[i] * 1000 + s[i + 1] * 100 + s[i + 2] * 10 + s[i + 3]

\* x.strftime('%Y%m%d%H%M%S'): 14 characters
strftime14(x) ==
    Digits4(x.year) \o Digits2(x.month) \o Digits2(x.day)
        \o Digits2(x.hour) \o Digits2(x.minute) \o Digits2(x.second)

\* x.strftime("%Y-%m-%d"): the three tokens of a date string
strftimeYmd(x) == <<x.year, x.month, x.day>>

\* str(x) of a datetime: "YYYY-MM-DD HH:MM:SS", six tokens
strOf(x) == <<x.year, x.month, x.day, x.hour, x.minute, x.second>>

ValidYmd(y, m, d) == y \in Years /\ m \in 1..12 /\ d \in 1..DaysInMonth(y, m)

\* whether dateutil's parse(s) returns (it raises otherwise)
parseOk(s) ==
    \/ Len(s) = 3 /\ ValidYmd(s[1], s[2], s[3])
    \/ Len(s) = 8 /\ ValidYmd(s[1], s[2], s[3])
    \/ Len(s) = 14 /\ ValidYmd(Num4(s, 1), Num2(s, 5), Num2(s, 7))

\* dateutil's parse(s) on the three shapes of text the code hands it:
\*   a date string (3 tokens): midnight of that day;
\*   str(datetime) + " " + "HH:MM" (8 tokens): the later time tokens replace
\*     hour and minute, the second stays;
\*   a '%Y%m%d%H%M%S' string (14 characters).
parse(s) ==
    IF Len(s) = 3 THEN DateTime(s[1], s[2], s[3], 0, 0, 0)
    ELSE IF Len(s) = 8 THEN DateTime(s[1], s[2], s[3], s[7], s[8], s[6])
    ELSE DateTime(Num4(s, 1), Num2(s, 5), Num2(s, 7),
                  Num2(s, 9), Num2(s, 11), Num2(s, 13))

\* the list `times`: '00:00', '00:15', ..., '23:45', each as <<hour, minute>>
times == [i \in 1..96 |-> <<(i - 1) \div 4, 15 * ((i - 1) % 4)>>]

----------------------------------------------------------------------------
(* dateFuncs.py *)

NoDt == DateTime(0, 0, 0, 0, 0, 0)

\* the values dateRanger can hand back
Scalar(dt)   == [kind |-> "datetime", dt |-> dt,   arr |-> <<>>, text |-> ""]
ScalarStr(t) == [kind |-> "str",      dt |-> NoDt, arr |-> <<>>, text |-> t]
Array(a)     == [kind |-> "array",    dt |-> NoDt, arr |-> a,    text |-> ""]
Raised       == [kind |-> "raise",    dt |-> NoDt, arr |-> <<>>, text |-> ""]

\* parse_date(var): the parsed datetime, or the message when parse raises
parse_date(var) ==
    IF parseOk(var) THEN Scalar(parse(var))
    ELSE ScalarStr("You entered an incorrect date.  Check your date format.")

\* dateFormatter(datearray): parse(datearray).strftime("%Y-%m-%d")
dateFormatter(datearray) == strftimeYmd(parse(datearray))

\* np.arange(start, stop, dtype='datetime64[D]') mapped to midnight datetimes:
\* the days start, start+1, ..., stop-1 (none when stop <= start)
arangeDays(start, stop) ==
    LET o0 == toordinal(start[1], start[2], start[3])
        o1 == toordinal(stop[1], stop[2], stop[3])
        n  == IF o1 > o0 THEN o1 - o0 ELSE 0
    IN  [i \in 1..n |->
            LET ymd == fromordinal(o0 + i - 1)
            IN  DateTime(ymd[1], ymd[2], ymd[3], 0, 0, 0)]

\* np.append(dates, adder): "numpy range is not endpoint inclusive"
appendEnd_dropped(ds, adder) == ds
appendEnd(ds, adder) == Append(ds, adder)

\* dateRanger(originalArray); originalArray is a str (isStr) or a list of str
dateRanger(oa) ==
    IF oa.isStr
    THEN IF Len(oa.str) = 0 THEN ScalarStr("crazy") ELSE parse_date(oa.str)
    ELSE IF Len(oa.list) = 1
    THEN \* parse("".join(originalArray))
         IF parseOk(oa.list[1]) THEN Scalar(parse(oa.list[1])) ELSE Raised
    ELSE IF Len(oa.list) > 2
    THEN IF \A i \in 1..Len(oa.list) : parseOk(oa.list[i])
         THEN Array([i \in 1..Len(oa.list) |-> parse(oa.list[i])])
         ELSE Raised
    ELSE \* np.vectorize raises on a size 0 input; dateFormatter raises as parse does
         IF Len(oa.list) = 0 \/ ~parseOk(oa.list[1]) \/ ~parseOk(oa.list[2])
         THEN Raised
         ELSE LET cleaned == [i \in 1..2 |-> dateFormatter(oa.list[i])]
                  ds      == arangeDays(cleaned[1], cleaned[2])
                  adder   == combineMin(parse(cleaned[2]))
              IN  Array(appendEnd(ds, adder))

\* the values gdeltRangeString can hand back: a str, a list of str, a numpy
\* array of str, or an exception
RStr(s)     == [kind |-> "str",     str |-> s,    items |-> <<>>]
RList(l)    == [kind |-> "list",    str |-> <<>>, items |-> l]
RNdarray(l) == [kind |-> "ndarray", str |-> <<>>, items |-> l]
RRaised     == [kind |-> "raise",   str |-> <<>>, items |-> <<>>]

\* the 15-minute strings of one day: parse(str(i) + " " + x).strftime(...) for x
\* in times[:upto]
quarterHours(i, upto) ==
    [k \in 1..upto |-> strftime14(parse(strOf(i) \o times[k]))]

RECURSIVE concatenate(_)
\* np.concatenate(converted, axis=0)
concatenate(arrays) ==
    IF arrays = <<>> THEN <<>> ELSE Head(arrays) \o concatenate(Tail(arrays))

\* (combine(x, time.min) + timedelta(minutes=45, hours=23)).strftime(...)
endOfDay(x) ==
    LET m == combineMin(x)
    IN  strftime14(DateTime(m.year, m.month, m.day, 23, 45, 0))

\* element.replace(minute=multiple, second=0).strftime(...)
replaceMinute(element, multiple) ==
    strftime14(DateTime(element.year, element.month, element.day,
                        element.hour, multiple, 0))

\* the version 1 truncation of one timestamp string (lines 205-213, 218-225)
eraTruncate_strict(x, ver) ==
    LET p == parse(x)
        s == strftime14(p)
    IN  IF dtGeq(p, parse(<<2013, 4, 1>>)) /\ p # parse(<<2013, 4, 1>>) THEN SubSeq(s, 1, 8)
        ELSE IF dtLess(p, parse(<<2006, 1, 1>>)) /\ ver = 1 THEN SubSeq(s, 1, 4)
        ELSE SubSeq(s, 1, 6)
eraTruncate(x, ver) ==
    LET p == parse(x)
        s == strftime14(p)
    IN  IF dtGeq(p, parse(<<2013, 4, 1>>)) THEN SubSeq(s, 1, 8)
        ELSE IF dtLess(p, parse(<<2006, 1, 1>>)) /\ ver = 1 THEN SubSeq(s, 1, 4)
        ELSE SubSeq(s, 1, 6)

Range(f) == {f[i] : i \in DOMAIN f}

\* list(set(converted)): the distinct members, in an order Python does not fix
listOfSet(l) ==
    LET S == Range(l)
    IN  {q \in [1..Cardinality(S) -> S] : Range(q) = S}

\* gdeltRangeString(element, coverage, version) with the clock reading `clock`:
\* the set of values the call can return
gdeltRangeString(ranged, cov, ver, clock) ==
    LET hour        == clock.hour
        multiplier  == clock.minute \div 15
        multiple    == 15 * multiplier
        conditioner == multiplier + 1
        element     == ranged.dt
        full        == cov /\ ver # 1
    IN
    IF ranged.kind = "str"
    THEN \* element is a str: element.date() raises AttributeError
         {RRaised}
    ELSE IF ranged.kind = "datetime"
    THEN LET first ==
                 IF dateOf(element) = dateOf(clock)
                 THEN IF full
                      THEN LET upto == hour * 4 + conditioner
                           IN  RNdarray(quarterHours(element,
                                                     IF upto > 96 THEN 96 ELSE upto))
                      ELSE RStr(replaceMinute(clock, multiple))
                 ELSE IF full
                      THEN RNdarray(quarterHours(element, 96))
                      ELSE RStr(replaceMinute(element, multiple))
         IN  IF ver = 1 THEN {RStr(eraTruncate(first.str, ver))} ELSE {first}
    ELSE LET lst == ranged.arr
             eod == [i \in 1..Len(lst) |-> endOfDay(lst[i])]
         IN  IF full
             THEN {RNdarray(concatenate([i \in 1..Len(lst) |-> quarterHours(lst[i], 96)]))}
             ELSE IF ver = 1
             THEN {RList(q) : q \in listOfSet([i \in 1..Len(eod) |-> eraTruncate(eod[i], ver)])}
             ELSE {RList(eod)}

\* the timestamps a gdeltRangeString result holds, in order
Timestamps(r) == IF r.kind = "str" THEN <<r.str>> ELSE r.items

----------------------------------------------------------------------------
(* The resolver harness: dateRanger on a date spec, then gdeltRangeString on  *)
(* its result at one clock reading, then once more at another.                *)

ValidDateStrings ==
    {<<2005, 12, 31>>, <<2006, 1, 1>>, <<2013, 3, 30>>, <<2013, 3, 31>>,
     <<2013, 4, 1>>, <<2016, 10, 19>>, <<2016, 10, 20>>}

\* the empty string, and a string parse rejects
BadDateStrings == {<<>>, <<2016, 13, 45>>}

DateStrings == ValidDateStrings \cup BadDateStrings

\* the strings lists of three are drawn from
ListDateStrings == {<<2005, 12, 31>>, <<2016, 10, 19>>, <<2016, 10, 20>>, <<2016, 13, 45>>}

StrSpec(s)  == [isStr |-> TRUE,  str |-> s,    list |-> <<>>]
ListSpec(l) == [isStr |-> FALSE, str |-> <<>>, list |-> l]

\* a two-element range of parseable dates stays within MaxSpan days
WithinSpan(l) ==
    (Len(l) = 2 /\ parseOk(l[1]) /\ parseOk(l[2]))
        => toordinal(l[2][1], l[2][2], l[2][3])
             - toordinal(l[1][1], l[1][2], l[1][3]) <= MaxSpan

DateSpecs ==
    {StrSpec(s) : s \in DateStrings}
        \cup {ListSpec(<<>>)}
        \cup {ListSpec(<<s>>) : s \in DateStrings}
        \cup {ListSpec(l) : l \in {q \in DateStrings \X DateStrings : WithinSpan(q)}}
        \cup {ListSpec(l) : l \in ListDateStrings \X ListDateStrings \X ListDateStrings}

\* the clock readings: on 2016-10-20 (a day the date strings name) and on the
\* day after, at the start of a day, mid-morning and the last minute of a day
Clocks ==
    {DateTime(2016, 10, d, hm[1], hm[2], 0) :
        d \in {20, 21}, hm \in {<<0, 0>>, <<10, 20>>, <<23, 59>>}}

Versions == {1, 2}

RNone == [kind |-> "none", str |-> <<>>, items |-> <<>>]
NoSpec == StrSpec(<<>>)

----------------------------------------------------------------------------
(* base.py: gdelt.Search on one gdelt object *)

Tables == {"events", "mentions", "gkg", "", "foo"}

\* the date specs Search is called with
SearchDateSpecs ==
    {ListSpec(<< <<2016, 10, 19>> >>),
     ListSpec(<< <<2016, 10, 20>> >>),
     ListSpec(<< <<2016, 10, 19>>, <<2016, 10, 20>> >>),
     ListSpec(<< <<2013, 3, 30>>, <<2013, 4, 1>> >>),
     StrSpec(<<>>),
     ListSpec(<<>>)}

\* the clock readings of a Search call
SearchClocks == {DateTime(2016, 10, 20, 0, 20, 0), DateTime(2016, 10, 21, 10, 20, 0)}

\* urlBuilder(dates, version, table): one URL for a str, a list of URLs otherwise
Url(ts, ver, table) == [ver |-> ver, table |-> table, ts |-> ts]
urlBuilder(r, ver, table) ==
    IF r.kind = "str"
    THEN [kind |-> "str", urls |-> <<Url(r.str, ver, table)>>]
    ELSE [kind |-> "list", urls |-> [i \in DOMAIN r.items |-> Url(r.items[i], ver, table)]]

\* the object has no download_list attribute yet
NoList == [kind |-> "unset", urls |-> <<>>]

\* gdeltRangeString(dateRanger(date), ...): the values the nested call can give
resolveCall(date, cov, ver, clock) ==
    IF dateRanger(date).kind = "raise" THEN {RRaised}
    ELSE gdeltRangeString(dateRanger(date), cov, ver, clock)

\* the same, tabulated over the arguments Search is called with
resolveTable ==
    [date \in SearchDateSpecs, cov \in BOOLEAN, ver \in Versions, clock \in SearchClocks |->
        resolveCall(date, cov, ver, clock)]
resolve(date, cov, ver, clock) == resolveTable[date, cov, ver, clock]

\* how a call ended
NoOutcome == [kind |-> "none", error |-> "", rows |-> <<>>, header |-> <<>>, cameo |-> FALSE]
Raise(e) == [kind |-> "raised", error |-> e, rows |-> <<>>, header |-> <<>>, cameo |-> FALSE]
Return(rows, header, cameo) ==
    [kind |-> "returned", error |-> "", rows |-> rows, header |-> header, cameo |-> cameo]

\* lines 199-267: what the version/table branches do.  err: the exception raised
\* ("" for none); sets: whether columns and self.download_list are assigned;
\* cols, urlTable, full: the header list, the urlBuilder table and the coverage
\* of the ranger partial used.  isSame is the outcome of `self.table is "mentions"`
\* (object identity of two equal strings, which the language does not fix).
tableDispatch_noV1Check(ver, table, cov, isSame) ==
    IF ver = 1
    THEN [err |-> "", sets |-> TRUE, cols |-> "events1",
          urlTable |-> IF table = "gkg" THEN "gkg" ELSE "events",
          full |-> (table = "gkg" \/ cov)]
    ELSE [err |-> "", sets |-> table \in {"events", "", "gkg", "mentions"},
          cols |-> IF table = "gkg" THEN "gkg" ELSE IF table = "mentions" THEN "mentions" ELSE "events2",
          urlTable |-> IF table = "" THEN "events" ELSE table, full |-> cov]
tableDispatch(ver, table, cov, isSame) ==
    IF ver = 1
    THEN IF table = "mentions" /\ isSame
         THEN [err |-> "BaseException", sets |-> FALSE, cols |-> "", urlTable |-> "", full |-> FALSE]
         ELSE IF table = "gkg"
         THEN [err |-> "", sets |-> TRUE, cols |-> "events1", urlTable |-> "gkg", full |-> TRUE]
         ELSE IF table = "events" \/ table = ""
         THEN [err |-> "", sets |-> TRUE, cols |-> "events1", urlTable |-> "events", full |-> cov]
         ELSE [err |-> "Exception", sets |-> FALSE, cols |-> "", urlTable |-> "", full |-> FALSE]
    ELSE IF table = "events" \/ table = ""
         THEN [err |-> "", sets |-> TRUE, cols |-> "events2", urlTable |-> "events", full |-> cov]
         ELSE IF table = "gkg"
         THEN [err |-> "", sets |-> TRUE, cols |-> "gkg", urlTable |-> "gkg", full |-> cov]
         ELSE IF table = "mentions"
         THEN [err |-> "", sets |-> TRUE, cols |-> "mentions", urlTable |-> "mentions", full |-> cov]
         ELSE [err |-> "", sets |-> FALSE, cols |-> "", urlTable |-> "", full |-> FALSE]

\* the rows of one RowBatch: batch src holds rows <<src, 1>> .. <<src, n>>
batchRows(b) == [k \in 1..b.n |-> <<b.src, k>>]

RECURSIVE concat(_)
\* pd.concat(downloaded_dfs) with reset_index: the batches' rows, batch after batch
concat(dfs) ==
    IF dfs = <<>> THEN <<>> ELSE batchRows(Head(dfs)) \o concat(Tail(dfs))

\* lines 306-308: the first row becomes the header and is dropped
dropHeader(rows) == Tail(rows)

\* lines 306-330 on the assembled table `rows`: the call's outcome
assemble(rows, table, ver, cols) ==
    IF table = "gkg" /\ ver = 1
    THEN \* results.ix[0] on a table without rows
         IF rows = <<>> THEN Raise("KeyError")
         ELSE IF dropHeader(rows) = <<>> THEN Raise("ValueError: returned no data")
         ELSE Return(dropHeader(rows), <<Head(rows)>>, FALSE)
    ELSE IF cols = "" THEN Raise("UnboundLocalError")
    ELSE IF rows = <<>> THEN Raise("ValueError: returned no data")
    ELSE Return(rows, <<>>, table = "events")

SInit ==
    /\ spc = "idle"
    /\ self_version \in Versions
    /\ arg_table = ""
    /\ self_table = ""
    /\ self_coverage = FALSE
    /\ datesString = RNone
    /\ download_list = NoList
    /\ columns = ""
    /\ pending = {}
    /\ downloaded_dfs = <<>>
    /\ outcome = NoOutcome
    /\ fetchStarted = 0
    /\ livePools = 0
    /\ calls = 0

\* a call ends with outcome o
EndCall(o) ==
    /\ spc' = "idle"
    /\ outcome' = o
    /\ pending' = {}

\* Search, lines 150-267: the input check, the resolution of the dates and the
\* version/table branches
SearchCall ==
    /\ spc = "idle"
    /\ calls < MaxCalls
    /\ calls' = calls + 1
    /\ fetchStarted' = 0
    /\ downloaded_dfs' = <<>>
    /\ UNCHANGED <<self_version, livePools, rvars>>
    /\ \E date \in SearchDateSpecs, tbl \in Tables, cov \in BOOLEAN,
          clock \in SearchClocks, isSame \in BOOLEAN, inputOk \in BOOLEAN :
          /\ arg_table' = tbl
          /\ IF ~inputOk
             THEN \* dateInputCheck(date, self.version) raises
                  /\ EndCall(Raise("InvalidDateError"))
                  /\ UNCHANGED <<self_table, self_coverage, datesString, download_list, columns>>
             ELSE /\ self_table' = tbl
                  /\ self_coverage' = cov
                  /\ \E ds \in resolve(date, cov, self_version, clock) :
                        IF ds.kind = "raise"
                        THEN /\ EndCall(Raise("DateError"))
                             /\ UNCHANGED <<datesString, download_list, columns>>
                        ELSE LET d == tableDispatch(self_version, tbl, cov, isSame) IN
                             /\ Len(Timestamps(ds)) <= MaxFiles
                             /\ datesString' = ds
                             /\ IF d.err # ""
                                THEN /\ EndCall(Raise(d.err))
                                     /\ UNCHANGED <<download_list, columns>>
                                ELSE /\ spc' = "download"
                                     /\ outcome' = NoOutcome
                                     /\ pending' = {}
                                     /\ columns' = IF d.sets THEN d.cols ELSE ""
                                     /\ IF d.sets
                                        THEN \E dl \in resolve(date, d.full, self_version, clock) :
                                                /\ Len(Timestamps(dl)) <= MaxFiles
                                                /\ download_list' = urlBuilder(dl, self_version, d.urlTable)
                                        ELSE UNCHANGED download_list

\* lines 280-286 and 306-330: one file, fetched inline by mp_worker, then assembled
DownloadInline ==
    /\ spc = "download"
    /\ datesString.kind = "str"
    /\ UNCHANGED <<self_version, arg_table, self_table, self_coverage, datesString, download_list,
                   columns, livePools, calls, rvars>>
    /\ IF download_list.kind = "unset"
       THEN \* self.download_list: AttributeError
            /\ EndCall(Raise("AttributeError"))
            /\ UNCHANGED <<fetchStarted, downloaded_dfs>>
       ELSE /\ fetchStarted' = fetchStarted + 1
            /\ \/ /\ EndCall(Raise("FetchError"))
                  /\ UNCHANGED downloaded_dfs
               \/ /\ download_list.kind = "str"
                  /\ \E n \in 0..MaxRows :
                        /\ downloaded_dfs' = <<[src |-> 1, n |-> n]>>
                        /\ EndCall(assemble(batchRows([src |-> 1, n |-> n]),
                                            self_table, self_version, columns))

\* lines 287-298: the pool is created and every URL of the list is dispatched
PoolStart ==
    /\ spc = "download"
    /\ datesString.kind # "str"
    /\ UNCHANGED <<self_version, arg_table, self_table, self_coverage, datesString, download_list,
                   columns, downloaded_dfs, calls, rvars>>
    /\ IF self_table = "events"
       THEN \* line 290: the name p is not defined
            /\ EndCall(Raise("NameError"))
            /\ UNCHANGED <<fetchStarted, livePools>>
       ELSE /\ livePools' = livePools + 1
            /\ IF download_list.kind = "unset"
               THEN /\ EndCall(Raise("AttributeError"))
                    /\ UNCHANGED fetchStarted
               ELSE /\ spc' = "pool"
                    /\ pending' = DOMAIN download_list.urls
                    /\ fetchStarted' = fetchStarted + Len(download_list.urls)
                    /\ UNCHANGED outcome

\* one dispatched fetch completes and its RowBatch is collected
PoolFetchDone ==
    /\ spc = "pool"
    /\ download_list.kind = "list"
    /\ \E i \in pending, n \in 0..MaxRows :
          /\ pending' = pending \ {i}
          /\ downloaded_dfs' = Append(downloaded_dfs, [src |-> i, n |-> n])
    /\ UNCHANGED <<spc, self_version, arg_table, self_table, self_coverage, datesString,
                   download_list, columns, outcome, fetchStarted, livePools, calls, rvars>>

\* one dispatched fetch fails: the error leaves Search from line 292/297
PoolFetchFail ==
    /\ spc = "pool"
    /\ pending # {}
    /\ EndCall(Raise("FetchError"))
    /\ UNCHANGED <<self_version, arg_table, self_table, self_coverage, datesString, download_list,
                   columns, downloaded_dfs, fetchStarted, livePools, calls, rvars>>

\* lines 299-330: close, terminate, join; concat; column names; the empty check
PoolJoin ==
    /\ spc = "pool"
    /\ pending = {}
    /\ livePools' = livePools - 1
    /\ EndCall(assemble(concat(downloaded_dfs), self_table, self_version, columns))
    /\ UNCHANGED <<self_version, arg_table, self_table, self_coverage, datesString, download_list,
                   columns, downloaded_dfs, fetchStarted, calls, rvars>>

Next ==
    \/ SearchCall
    \/ DownloadInline
    \/ PoolStart
    \/ PoolFetchDone
    \/ PoolFetchFail
    \/ PoolJoin

RInit ==
    /\ rpc = "start"
    /\ originalArray = NoSpec
    /\ dates = Raised
    /\ coverage = FALSE
    /\ version = 2
    /\ now = NoDt
    /\ converted = RNone
    /\ now2 = NoDt
    /\ converted2 = RNone

CallDateRanger ==
    /\ rpc = "start"
    /\ \E oa \in DateSpecs :
          /\ originalArray' = oa
          /\ dates' = dateRanger(oa)
    /\ rpc' = "ranged"
    /\ UNCHANGED <<coverage, version, now, converted, now2, converted2, svars>>

CallRangeString ==
    /\ rpc = "ranged"
    /\ dates.kind # "raise"
    /\ \E cov \in BOOLEAN, ver \in Versions, clock \in Clocks :
          /\ coverage' = cov
          /\ version' = ver
          /\ now' = clock
          /\ \E r \in gdeltRangeString(dates, cov, ver, clock) : converted' = r
    /\ rpc' = "resolved"
    /\ UNCHANGED <<originalArray, dates, now2, converted2, svars>>

CallRangeStringAgain ==
    /\ rpc = "resolved"
    /\ \E clock \in Clocks :
          /\ now2' = clock
          /\ \E r \in gdeltRangeString(dates, coverage, version, clock) : converted2' = r
    /\ rpc' = "again"
    /\ UNCHANGED <<originalArray, dates, coverage, version, now, converted, svars>>

RNext == CallDateRanger \/ CallRangeString \/ CallRangeStringAgain

Init == RInit /\ SInit

\* the resolver alone: dateRanger, then gdeltRangeString twice
SpecResolver == Init /\ [][RNext]_vars

\* Search calls on one gdelt object
Spec == Init /\ [][Next]_vars

----------------------------------------------------------------------------
(* What the resolver claims speak about *)

\* the DayList dateRanger resolved, as a sequence of datetimes
DayList(r) == IF r.kind = "datetime" THEN <<r.dt>> ELSE r.arr

NoDuplicates(q) == \A i, j \in DOMAIN q : i # j => q[i] # q[j]

\* the DayList names no calendar day twice
DistinctDays(r) == NoDuplicates([i \in DOMAIN DayList(r) |-> dateOf(DayList(r)[i])])

Ymd8(d) == Digits4(d.year) \o Digits2(d.month) \o Digits2(d.day)

\* the timestamps of q that lie on day d, in order
OnDay(q, d) ==
    SelectSeq(q, LAMBDA t : Len(t) >= 8 /\ SubSeq(t, 1, 8) = Ymd8(d))

Resolved == rpc \in {"resolved", "again"} /\ converted.kind # "raise"

\* C2: version 2, coverage false: every day of the DayList that is not the
\* current calendar day resolves to exactly one timestamp, the end-of-day
\* marker YYYYMMDD234500, whatever the clock reads.
C2_EndOfDayMarker ==
    (Resolved /\ version = 2 /\ ~coverage /\ DistinctDays(dates))
        => \A i \in DOMAIN DayList(dates) :
              LET d == DayList(dates)[i]
              IN  dateOf(d) # dateOf(now)
                    => OnDay(Timestamps(converted), d)
                         = << Ymd8(d) \o <<2, 3, 4, 5, 0, 0>> >>

\* the 15-minute boundaries 00:00:00 .. of day d, the first n of them
Boundaries(d, n) ==
    [k \in 1..n |->
        Ymd8(d) \o Digits2((k - 1) \div 4) \o Digits2(15 * ((k - 1) % 4)) \o <<0, 0>>]

\* timestamp t (14 characters) is not later than the clock reading c
NotLater(t, c) ==
    LET key(y, m, d, H, M) == (((toordinal(y, m, d) - toordinal(2005, 1, 1)) * 24) + H) * 60 + M
    IN  key(Num4(t, 1), Num2(t, 5), Num2(t, 7), Num2(t, 9), Num2(t, 11))
            <= key(c.year, c.month, c.day, c.hour, c.minute)

\* C3: version 2, coverage true: every day d of the DayList expands to exactly
\* the 15-minute boundaries of d not later than now: all 96 when d is not the
\* current day, 00:00:00 up to now floored to 15 minutes when it is; no
\* timestamp later than now is produced.
C3_QuarterHoursUpToNow ==
    (Resolved /\ version = 2 /\ coverage /\ DistinctDays(dates))
        => /\ \A i \in DOMAIN DayList(dates) :
                 LET d == DayList(dates)[i]
                 IN  OnDay(Timestamps(converted), d)
                       = Boundaries(d, IF dateOf(d) = dateOf(now)
                                       THEN now.hour * 4 + (now.minute \div 15) + 1
                                       ELSE 96)
           /\ \A k \in DOMAIN Timestamps(converted) :
                 NotLater(Timestamps(converted)[k], now)

\* the era rule: YYYYMMDD from 2013-04-01 on, YYYY before 2006-01-01, YYYYMM between
EraIdentifier(d) ==
    IF d.year > 2013 \/ (d.year = 2013 /\ d.month >= 4) THEN Ymd8(d)
    ELSE IF d.year < 2006 THEN Digits4(d.year)
    ELSE Digits4(d.year) \o Digits2(d.month)

\* C4: version 1, either coverage value, a day alone or in a list or range:
\* the identifiers returned are exactly the era identifiers of the days.
C4_EraRule ==
    (Resolved /\ version = 1)
        => /\ Range(Timestamps(converted))
                = {EraIdentifier(DayList(dates)[i]) : i \in DOMAIN DayList(dates)}
           /\ dates.kind = "datetime" => converted.kind = "str"

\* C4's case: a range across 2013-04-01 resolved to a monthly and a daily identifier
C4_Witness ==
    /\ rpc = "resolved" /\ version = 1 /\ converted.kind = "list"
    /\ \E i, j \in DOMAIN converted.items :
          Len(converted.items[i]) = 6 /\ Len(converted.items[j]) = 8

\* C5: for every accepted date spec, version and coverage, the returned
\* collection of timestamps contains no timestamp twice.
C5_NoDuplicateTimestamps ==
    Resolved => NoDuplicates(Timestamps(converted))

IsRange(oa) ==
    /\ ~oa.isStr /\ Len(oa.list) = 2
    /\ parseOk(oa.list[1]) /\ parseOk(oa.list[2])
    /\ toordinal(oa.list[1][1], oa.list[1][2], oa.list[1][3])
          <= toordinal(oa.list[2][1], oa.list[2][2], oa.list[2][3])

OrdinalOf(x) == toordinal(x.year, x.month, x.day)

\* C6: for a two-element list [a, b], a not later than b, dateRanger returns
\* exactly the days a, a+1, ..., b: (b - a).days + 1 of them, both endpoints
\* present, each one day after the one before.
C6_InclusiveRange ==
    (rpc # "start" /\ IsRange(originalArray))
        => LET a == parse(originalArray.list[1])
               b == parse(originalArray.list[2])
               l == dates.arr
           IN  /\ dates.kind = "array"
               /\ Len(l) = OrdinalOf(b) - OrdinalOf(a) + 1
               /\ l[1] = a /\ l[Len(l)] = b
               /\ \A i \in 1..(Len(l) - 1) :
                     /\ OrdinalOf(l[i + 1]) = OrdinalOf(l[i]) + 1
                     /\ SecondOfDay(l[i]) = 0

\* C6's case: a three-day range across a month end was resolved
C6_Witness ==
    /\ rpc = "ranged" /\ IsRange(originalArray)
    /\ originalArray.list[1][2] # originalArray.list[2][2]
    /\ Len(dates.arr) = 3

\* no day of the DayList is the calendar day of clock reading c
NoCurrentDay(r, c) == \A i \in DOMAIN DayList(r) : dateOf(DayList(r)[i]) # dateOf(c)

\* C9: for a date spec with no current-day date, two calls at two clock
\* readings return identical timestamp collections.
C9_ClockIndependent ==
    (rpc = "again" /\ NoCurrentDay(dates, now) /\ NoCurrentDay(dates, now2))
        => /\ converted2.kind = converted.kind
           /\ converted2.str = converted.str
           /\ Len(converted2.items) = Len(converted.items)
           /\ Range(converted2.items) = Range(converted.items)

\* C10: dateRanger raises, and returns no value, on an empty date spec (empty
\* string or empty list) and on a single string that cannot be parsed.
C10_BadSpecRaises ==
    (rpc # "start"
        /\ \/ originalArray.isStr /\ ~parseOk(originalArray.str)
           \/ ~originalArray.isStr /\ Len(originalArray.list) = 0)
        => dates.kind = "raise"

----------------------------------------------------------------------------
(* What the Search claims speak about *)

\* a call has ended
Ended == spc = "idle" /\ calls > 0

\* the rows of every RowBatch of a file set of n files, batch i holding rows[i] rows
AllRows(dfs) == UNION {Range(batchRows(dfs[i])) : i \in DOMAIN dfs}

\* every file of the download list was fetched and gave a RowBatch
AllFetched ==
    /\ download_list.kind # "unset"
    /\ {downloaded_dfs[i].src : i \in DOMAIN downloaded_dfs} = DOMAIN download_list.urls
    /\ Len(downloaded_dfs) = Len(download_list.urls)

\* the call took the pool path with more than one file and no fetch of it failed
\* or came back without rows
PoolCallAllRows ==
    /\ Ended
    /\ arg_table = self_table
    /\ datesString.kind \in {"list", "ndarray"}
    /\ download_list.kind = "list" /\ Len(download_list.urls) > 1
    /\ outcome.error \notin {"InvalidDateError", "DateError", "FetchError"}
    /\ \A i \in DOMAIN downloaded_dfs : downloaded_dfs[i].n >= 1

\* C1: for every table kind and every file set of more than one file, when
\* every fetch succeeds and returns rows, Search returns one table holding the
\* rows of every RowBatch exactly once (version 1 gkg: all rows but the one
\* header row), whatever order the fetches complete in.
C1_AllRowsExactlyOnce ==
    (PoolCallAllRows /\ self_table \in {"events", "mentions", "gkg"}
        /\ ~(self_version = 1 /\ self_table = "mentions"))
        => /\ outcome.kind = "returned"
           /\ AllFetched
           /\ NoDuplicates(outcome.header \o outcome.rows)
           /\ Range(outcome.header \o outcome.rows) = AllRows(downloaded_dfs)
           /\ Len(outcome.header) = IF self_version = 1 /\ self_table = "gkg" THEN 1 ELSE 0

\* C7: a Search with table mentions on a version 1 object always ends in an
\* error, and no file fetch is started before the error is raised.
C7_MentionsV1Rejected ==
    (self_version = 1 /\ arg_table = "mentions" /\ calls > 0)
        => /\ spc = "idle"
           /\ outcome.kind = "raised"
           /\ fetchStarted = 0
           /\ pending = {} /\ downloaded_dfs = <<>>

\* C7's case: the call got past the input check and the date resolution and
\* was rejected for its table
C7_Witness ==
    /\ Ended /\ self_version = 1 /\ arg_table = "mentions" /\ self_table = "mentions"
    /\ outcome.error = "BaseException"

\* C8: whenever all fetches of a Search succeed but the assembled table has
\* zero rows (inline and pool path, every table kind and version), Search
\* fails with the 'returned no data' ValueError and no other error, and never
\* returns an empty table.
C8_EmptyResultError ==
    (Ended /\ arg_table = self_table /\ self_table \in {"events", "mentions", "gkg", ""}
        /\ AllFetched
        /\ \A i \in DOMAIN downloaded_dfs : downloaded_dfs[i].n = 0)
        => outcome = Raise("ValueError: returned no data")

\* the table kinds a version does not support
Unsupported(ver, tbl) ==
    IF ver = 1 THEN tbl \notin {"events", "gkg", ""}
    ELSE tbl \notin {"events", "mentions", "gkg", ""}

\* C11: in any sequence of Search calls on one object, a Search whose table
\* kind the object's version does not support ends in an error without
\* starting any file fetch: the download list of an earlier Search is never
\* fetched on behalf of the rejected query.
C11_UnsupportedTableNoFetch ==
    (calls > 0 /\ Unsupported(self_version, arg_table))
        => /\ fetchStarted = 0
           /\ pending = {} /\ downloaded_dfs = <<>>
           /\ spc = "idle" => outcome.kind = "raised"

\* C12: every worker pool a Search call creates is closed, terminated and
\* joined before that call returns or raises, also when a dispatched fetch
\* fails: between calls no pool created by a finished call is live.
C12_NoLivePoolBetweenCalls ==
    spc = "idle" => livePools = 0

====
